---- MODULE Spec2Model ----
(***************************************************************************)
(* VideoMirroring (src/main.py): a Tk application that probes the capture  *)
(* devices 0..5, lets the user select one, and mirrors it through a        *)
(* capture thread and a timer-driven render callback sharing one           *)
(* latest-frame slot.                                                      *)
(*                                                                         *)
(* Two threads are modelled.  The UI thread runs the Tk callbacks          *)
(* (detect_and_select_camera, start_mirror, update_display, on_closing);   *)
(* its position is pcUI.  The capture thread runs capture_frames; its      *)
(* position is pcCap.  A callback is split into steps only where the       *)
(* other thread can observe the intermediate state.                        *)
(***************************************************************************)
EXTENDS Integers, Sequences, FiniteSets, TLC

\* ---------------------------------------------------------------- bounds
\* The capture thread reads at most MaxReads frames while running is true.
MaxReads == 2
\* A frame buffer has FrameCells pixels.
FrameCells == 2

\* Frames are at most MaxFrameDim pixels wide and high, the display widget at
\* most MaxWidgetDim.
MaxFrameDim == 3
MaxWidgetDim == 4

\* ------------------------------------------------------ program constants
\* for i in range(6)
NumProbe == 6

\* Python's None, and a value that is not None.
None == <<>>
Some(x) == <<x>>
Val(o) == o[1]

VARIABLES
    present,            \* environment: the indices whose probe open succeeds
    pcUI,               \* position of the UI thread
    pcCap,              \* position of the capture thread
    probe_i,            \* loop variable i of detect_and_select_camera
    available_cameras,  \* self.available_cameras
    camera_names,       \* camera_names: the index each label "Video Input i" shows
    camera_var,         \* CameraSelectionDialog.camera_var
    openHandles,        \* the capture-library handles that are open: <<kind, index>>
    cap,                \* self.cap: None or [id, opened]
    running,            \* self.running
    current_frame,      \* self.current_frame: None or a reference to a buffer
    frame_lock,         \* owner of self.frame_lock: "none", "ui", "capture"
    heap,               \* the rgb buffers: buffer id -> its cells
    nReads,             \* number of cap.read() calls made
    frame,              \* capture thread local: the frame read (BGR cells) or None
    rgbCap,             \* capture thread local: id of the buffer cvtColor fills
    cvt_k,              \* capture thread local: cells cvtColor has written so far
    rgbUI,              \* UI thread local: the cells of the copy taken so far, or None
    refUI,              \* UI thread local: the buffer self.current_frame named at copy
    pending,            \* update_display callbacks registered with root.after
    shown,              \* the image the display widget holds (None or cells)
    \* history variables (not program state)
    h,
    \* the scale-to-fit step of update_display applied to chosen sizes
    sc

vars == <<present, pcUI, pcCap, probe_i, available_cameras, camera_names,
          camera_var, openHandles, cap, running, current_frame, frame_lock,
          heap, nReads, frame, rgbCap, cvt_k, rgbUI, refUI, pending, shown, h,
          sc>>

\* ------------------------------------------------------------- frames
BufIds == 1..MaxReads
Cells == 1..FrameCells

\* The n-th frame the device delivers, in BGR channel order.
Pixel(n, k) == <<n, k, 0>>
CameraFrame(n) == [k \in Cells |-> Pixel(n, k)]

\* cv2.cvtColor(frame, cv2.COLOR_BGR2RGB): the channel order is reversed.
CvtPixel(p) == <<p[3], p[2], p[1]>>
CvtFrame(f) == [k \in DOMAIN f |-> CvtPixel(f[k])]

\* The number of the camera frame an RGB pixel came from.
PixelFrameNo(p) == p[3]

\* The number of the camera frame a capture-thread local `frame` holds.
FrameNoOf(f) == Val(f)[1][1]

\* cvtColor returns a newly allocated array for every frame.
ReuseBuffer(n) == 1
NewBuffer(n) == n

EmptyBuffer == [k \in Cells |-> None]

\* ---------------------------------------------------------- enumeration
PrependCamera(av, i) == <<i>> \o av
AppendCamera(av, i) == Append(av, i)

NeverEmpty(av) == FALSE
NoCameras(av) == av = <<>>

KeepHandle(handles, hd) == handles
ReleaseHandle(handles, hd) == handles \ {hd}

\* ------------------------------------------------------------ selection
\* CameraSelectionDialog.ok / cancel: the value left in dialog.result.
OkResult(cv) == Some(cv)
CancelKeepsChoice(cv) == Some(cv)
CancelResult(cv) == None

\* The radio buttons: entry idx shows camera_names[idx] and sets camera_var to idx.
RadioValues(cameras, names) == 0..(Len(names) - 1)

\* start_mirror: camera_id = self.available_cameras[camera_index]
CameraIdIsIndex(av, camera_index) == camera_index
CameraId(av, camera_index) == av[camera_index + 1]

OpenNeverFails(c) == FALSE
OpenFailed(c) == ~Val(c).opened

\* on_closing: if self.cap
CapNeverReleased(c) == FALSE
CapTruthy(c) == c # None

RunningKept(r) == r
ClosingRunning(r) == FALSE

CaptureIgnoresLock(l) == TRUE
CaptureMayEnter(l) == l = "none"

\* ---------------------------------------------------------- scale to fit
FrameDims == 1..MaxFrameDim
\* winfo_width() / winfo_height(): 1 until the widget is laid out
WidgetDims == 1..MaxWidgetDim

\* if frame_width > 1 and frame_height > 1
WidgetLaidOut(frame_width, frame_height) == frame_width > 1 /\ frame_height > 1

\* scale = min(frame_width/w, frame_height/h), as the fraction <<num, den>>
MaxScale(w, hh, frame_width, frame_height) ==
    IF frame_width * hh >= frame_height * w THEN <<frame_width, w>>
                                            ELSE <<frame_height, hh>>
ScaleOf(w, hh, frame_width, frame_height) ==
    IF frame_width * hh <= frame_height * w THEN <<frame_width, w>>
                                            ELSE <<frame_height, hh>>

\* int(x * scale): the product truncated toward zero (it is never negative)
IntOf(x, scale) == (x * scale[1]) \div scale[2]

\* new_w = int(w * scale); new_h = int(h * scale)
NewSize(w, hh, frame_width, frame_height) ==
    LET scale == ScaleOf(w, hh, frame_width, frame_height)
    IN  <<IntOf(w, scale), IntOf(hh, scale)>>

\* cv2.resize raises when a side of the target size is not positive.
ResizeRaises(size) == size[1] < 1 \/ size[2] < 1

\* The step applied to given sizes: whether a resize is attempted and to what.
ScaleStepResult(w, hh, frame_width, frame_height) ==
    IF WidgetLaidOut(frame_width, frame_height)
    THEN [resized |-> TRUE, new |-> NewSize(w, hh, frame_width, frame_height)]
    ELSE [resized |-> FALSE, new |-> <<w, hh>>]

\* Whether cv2.resize raises in a render tick, over the frame shapes and
\* widget sizes the tick can meet.
RenderOutcomes ==
    {LET r == ScaleStepResult(w, hh, frame_width, frame_height)
     IN  r.resized /\ ResizeRaises(r.new) :
        w \in FrameDims, hh \in FrameDims,
        frame_width \in WidgetDims, frame_height \in WidgetDims}

ScOff == [pc |-> "off"]

\* ---------------------------------------------------------------- Init
InitHistory ==
    [runFalls |-> 0, releases |-> 0, prompted |-> FALSE,
     declined |-> FALSE, openFailed |-> FALSE, picked |-> None,
     opens |-> 0, written |-> {}, lastWritten |-> 0,
     udCalls |-> 0, readsAfterClose |-> 0, closedFrom |-> "none",
     releasedWhileRunning |-> FALSE, renderRaised |-> FALSE,
     readReleased |-> FALSE]
Init ==
    /\ present \in SUBSET (0..(NumProbe - 1))
    /\ pcUI = "idle"
    /\ pcCap = "none"
    /\ probe_i = 0
    /\ available_cameras = <<>>
    /\ camera_names = <<>>
    /\ camera_var = 0
    /\ openHandles = {}
    /\ cap = None
    /\ running = FALSE
    /\ current_frame = None
    /\ frame_lock = "none"
    /\ heap = [b \in BufIds |-> EmptyBuffer]
    /\ nReads = 0
    /\ frame = None
    /\ rgbCap = 0
    /\ cvt_k = 0
    /\ rgbUI = None
    /\ refUI = 0
    /\ pending = 0
    /\ shown = None
    /\ h = InitHistory
    /\ sc = ScOff

captureVars == <<pcCap, current_frame, frame_lock, heap, nReads, frame, rgbCap, cvt_k>>
renderVars == <<rgbUI, refUI, pending, shown>>
enumVars == <<probe_i, available_cameras, camera_names>>

\* ------------------------------------------------ detect_and_select_camera
\* root.after(100, self.detect_and_select_camera) fires.
Detect ==
    /\ pcUI = "idle"
    /\ pcUI' = "probe"
    /\ UNCHANGED <<sc, present, enumVars, camera_var, openHandles, cap, running,
                   captureVars, renderVars, h>>

\* cap = cv2.VideoCapture(i); if cap.isOpened(): ... (else the next i)
ProbeOpen ==
    /\ pcUI = "probe"
    /\ probe_i < NumProbe
    /\ IF probe_i \in present
       THEN /\ openHandles' = openHandles \cup {<<"probe", probe_i>>}
            /\ pcUI' = "probe_opened"
            /\ UNCHANGED probe_i
       ELSE /\ probe_i' = probe_i + 1
            /\ UNCHANGED <<openHandles, pcUI>>
    /\ UNCHANGED <<sc, present, available_cameras, camera_names, camera_var, cap,
                   running, captureVars, renderVars, h>>

\* self.available_cameras.append(i); camera_names.append(name); cap.release()
ProbeRecord ==
    /\ pcUI = "probe_opened"
    /\ available_cameras' = AppendCamera(available_cameras, probe_i)
    /\ camera_names' = Append(camera_names, probe_i)
    /\ openHandles' = ReleaseHandle(openHandles, <<"probe", probe_i>>)
    /\ probe_i' = probe_i + 1
    /\ pcUI' = "probe"
    /\ UNCHANGED <<sc, present, camera_var, cap, running, captureVars, renderVars, h>>

\* After the loop: no camera -> error and quit; one -> askyesno; several -> dialog.
ProbeEnd ==
    /\ pcUI = "probe"
    /\ probe_i = NumProbe
    /\ IF NoCameras(available_cameras)
       THEN /\ pcUI' = "quit"
            /\ UNCHANGED <<h, camera_var>>
       ELSE /\ pcUI' = IF Len(available_cameras) = 1 THEN "select1" ELSE "selectN"
            /\ camera_var' = 0
            /\ h' = [h EXCEPT !.prompted = TRUE]
    /\ UNCHANGED <<sc, present, enumVars, openHandles, cap, running, captureVars,
                   renderVars>>

\* ------------------------------------------------------------ start_mirror
\* hist is the history record with what the user did already noted in it.
\* The open of the selected device may fail although its probe succeeded.
StartMirror(camera_index, hist) ==
    /\ camera_index + 1 \in DOMAIN available_cameras
    /\ \E ok \in BOOLEAN :
        LET camera_id == CameraId(available_cameras, camera_index)
            newcap == Some([id |-> camera_id, opened |-> ok])
        IN  /\ cap' = newcap
            /\ openHandles' = IF ok THEN openHandles \cup {<<"cap", camera_id>>}
                                    ELSE openHandles
            /\ h' = [hist EXCEPT !.opens = @ + 1, !.openFailed = ~ok]
            /\ IF OpenFailed(newcap)
               THEN \* messagebox.showerror; self.root.quit(); return
                    /\ pcUI' = "quit"
                    /\ UNCHANGED <<running, pcCap>>
               ELSE \* self.running = True; capture_thread.start(); self.update_display()
                    /\ running' = TRUE
                    /\ pcCap' = "test"
                    /\ pcUI' = "ud_enter"
    /\ UNCHANGED <<sc, present, enumVars, camera_var, current_frame, frame_lock,
                   heap, nReads, frame, rgbCap, cvt_k, renderVars>>

\* messagebox.askyesno answered yes: self.start_mirror(0)
ConfirmYes ==
    /\ pcUI = "select1"
    /\ StartMirror(0, [h EXCEPT !.picked = Some(camera_names[1])])

\* messagebox.askyesno answered no: self.root.quit()
ConfirmNo ==
    /\ pcUI = "select1"
    /\ pcUI' = "quit"
    /\ h' = [h EXCEPT !.declined = TRUE]
    /\ UNCHANGED <<sc, present, enumVars, camera_var, openHandles, cap, running,
                   captureVars, renderVars>>

\* The user clicks one of the radio buttons of CameraSelectionDialog.
DialogPick ==
    /\ pcUI = "selectN"
    /\ \E idx \in RadioValues(available_cameras, camera_names) :
        /\ idx # camera_var
        /\ camera_var' = idx
    /\ UNCHANGED <<sc, present, pcUI, enumVars, openHandles, cap, running,
                   captureVars, renderVars, h>>

\* dialog.result after wait_window returns decides: start_mirror(result) or quit.
DialogReturn(result, hist) ==
    IF result # None
    THEN StartMirror(Val(result), hist)
    ELSE /\ pcUI' = "quit"
         /\ h' = hist
         /\ UNCHANGED <<sc, present, enumVars, camera_var, openHandles, cap, running,
                        captureVars, renderVars>>

\* OK button: self.result = self.camera_var.get()
DialogOk ==
    /\ pcUI = "selectN"
    /\ camera_var + 1 \in DOMAIN camera_names
    /\ DialogReturn(OkResult(camera_var),
                    [h EXCEPT !.picked = Some(camera_names[camera_var + 1])])

\* Cancel button: self.result = None
DialogCancel ==
    /\ pcUI = "selectN"
    /\ DialogReturn(CancelResult(camera_var), [h EXCEPT !.declined = TRUE])

\* ---------------------------------------------------------- capture_frames
\* while self.running:
CapTest ==
    /\ pcCap = "test"
    /\ IF running
       THEN /\ nReads < MaxReads
            /\ pcCap' = "read"
       ELSE pcCap' = "done"
    /\ frame' = None
    /\ rgbCap' = 0
    /\ UNCHANGED <<sc, present, pcUI, enumVars, camera_var, openHandles, cap, running,
                   current_frame, frame_lock, heap, nReads, cvt_k, renderVars, h>>

\* capture_frames with a failed read emptying the slot.
CapReadClearsSlot ==
    /\ pcCap = "read"
    /\ nReads' = nReads + 1
    /\ h' = [h EXCEPT !.readsAfterClose = IF h.closedFrom # "none" THEN @ + 1 ELSE @,
                      !.readReleased = @ \/ (h.releases > 0)]
    /\ \E ret \in BOOLEAN :
        /\ (<<"cap", Val(cap).id>> \notin openHandles) => ~ret
        /\ IF ret
           THEN /\ frame' = Some(CameraFrame(nReads + 1))
                /\ rgbCap' = NewBuffer(nReads + 1)
                /\ cvt_k' = 0
                /\ pcCap' = "cvt"
                /\ UNCHANGED current_frame
           ELSE /\ pcCap' = "test"
                /\ current_frame' = None
                /\ UNCHANGED <<frame, rgbCap, cvt_k>>
    /\ UNCHANGED <<sc, present, pcUI, enumVars, camera_var, openHandles, cap, running,
                   frame_lock, heap, renderVars>>

\* ret, frame = self.cap.read(): a released handle delivers nothing; an open
\* one delivers the next frame or fails.
CapRead ==
    /\ pcCap = "read"
    /\ nReads' = nReads + 1
    /\ h' = [h EXCEPT !.readsAfterClose = IF h.closedFrom # "none" THEN @ + 1 ELSE @,
                      !.readReleased = @ \/ (h.releases > 0)]
    /\ \E ret \in BOOLEAN :
        /\ (<<"cap", Val(cap).id>> \notin openHandles) => ~ret
        /\ IF ret
           THEN /\ frame' = Some(CameraFrame(nReads + 1))
                /\ rgbCap' = NewBuffer(nReads + 1)
                /\ cvt_k' = 0
                /\ pcCap' = "cvt"
           ELSE /\ pcCap' = "test"
                /\ UNCHANGED <<frame, rgbCap, cvt_k>>
    /\ UNCHANGED <<sc, present, pcUI, enumVars, camera_var, openHandles, cap, running,
                   current_frame, frame_lock, heap, renderVars>>

\* rgb = cv2.cvtColor(frame, cv2.COLOR_BGR2RGB), one cell of the array at a time.
CapCvt ==
    /\ pcCap = "cvt"
    /\ cvt_k' = cvt_k + 1
    /\ heap' = [heap EXCEPT ![rgbCap][cvt_k + 1] = Some(CvtPixel(Val(frame)[cvt_k + 1]))]
    /\ pcCap' = IF cvt_k + 1 = FrameCells THEN "lock" ELSE "cvt"
    /\ UNCHANGED <<sc, present, pcUI, enumVars, camera_var, openHandles, cap, running,
                   current_frame, frame_lock, nReads, frame, rgbCap, renderVars, h>>

\* with self.frame_lock: (acquire)
CapLock ==
    /\ pcCap = "lock"
    /\ CaptureMayEnter(frame_lock)
    /\ frame_lock' = "capture"
    /\ pcCap' = "store"
    /\ UNCHANGED <<sc, present, pcUI, enumVars, camera_var, openHandles, cap, running,
                   current_frame, heap, nReads, frame, rgbCap, cvt_k, renderVars, h>>

\* self.current_frame = rgb
CapStore ==
    /\ pcCap = "store"
    /\ current_frame' = Some(rgbCap)
    /\ h' = [h EXCEPT !.written = @ \cup {FrameNoOf(frame)},
                       !.lastWritten = FrameNoOf(frame)]
    /\ pcCap' = "unlock"
    /\ UNCHANGED <<sc, present, pcUI, enumVars, camera_var, openHandles, cap, running,
                   frame_lock, heap, nReads, frame, rgbCap, cvt_k, renderVars>>

\* leaving the with block (release)
CapUnlock ==
    /\ pcCap = "unlock"
    /\ frame_lock' = "none"
    /\ pcCap' = "test"
    /\ UNCHANGED <<sc, present, pcUI, enumVars, camera_var, openHandles, cap, running,
                   current_frame, heap, nReads, frame, rgbCap, cvt_k, renderVars, h>>
\* ---------------------------------------------------------- update_display
\* A root.after(5, self.update_display) timer fires while the event loop is idle.
TimerFires ==
    /\ pcUI = "loop"
    /\ pending > 0
    /\ pending' = pending - 1
    /\ pcUI' = "ud_enter"
    /\ UNCHANGED <<sc, present, enumVars, camera_var, openHandles, cap, running,
                   captureVars, rgbUI, refUI, shown, h>>

\* if not self.running: return
UD_Enter ==
    /\ pcUI = "ud_enter"
    /\ pcUI' = IF ~running THEN "loop" ELSE "ud_lock"
    /\ h' = [h EXCEPT !.udCalls = 1]
    /\ UNCHANGED <<sc, present, enumVars, camera_var, openHandles, cap, running,
                   captureVars, renderVars>>

\* with self.frame_lock: (acquire)
UD_Lock ==
    /\ pcUI = "ud_lock"
    /\ frame_lock = "none"
    /\ frame_lock' = "ui"
    /\ pcUI' = "ud_check"
    /\ UNCHANGED <<sc, present, enumVars, camera_var, openHandles, cap, running,
                   pcCap, current_frame, heap, nReads, frame, rgbCap, cvt_k,
                   renderVars, h>>

\* if self.current_frame is not None: rgb = self.current_frame.copy() (begun)
\* else: self.root.after(5, self.update_display); return
UD_Check ==
    /\ pcUI = "ud_check"
    /\ IF current_frame # None
       THEN /\ refUI' = Val(current_frame)
            /\ rgbUI' = Some(<<>>)
            /\ pcUI' = "ud_copy"
            /\ UNCHANGED pending
       ELSE /\ pending' = pending + 1
            /\ pcUI' = "ud_unlock"
            /\ UNCHANGED <<refUI, rgbUI>>
    /\ UNCHANGED <<sc, present, enumVars, camera_var, openHandles, cap, running,
                   captureVars, shown, h>>

\* the copy, one cell of the array at a time
UD_Copy ==
    /\ pcUI = "ud_copy"
    /\ LET k == Len(Val(rgbUI)) + 1
       IN  /\ rgbUI' = Some(Append(Val(rgbUI), heap[refUI][k]))
           /\ pcUI' = IF k = FrameCells THEN "ud_unlock" ELSE "ud_copy"
    /\ UNCHANGED <<sc, present, enumVars, camera_var, openHandles, cap, running,
                   captureVars, refUI, pending, shown, h>>

\* update_display keeping the lock when it returns early.
UD_UnlockKeepsOnReturn ==
    /\ pcUI = "ud_unlock"
    /\ frame_lock' = IF rgbUI = None THEN frame_lock ELSE "none"
    /\ pcUI' = IF rgbUI = None THEN "loop" ELSE "ud_render"
    /\ UNCHANGED <<sc, present, enumVars, camera_var, openHandles, cap, running,
                   pcCap, current_frame, heap, nReads, frame, rgbCap, cvt_k,
                   renderVars, h>>

\* leaving the with block (release), on the return path too
UD_Unlock ==
    /\ pcUI = "ud_unlock"
    /\ frame_lock' = "none"
    /\ pcUI' = IF rgbUI = None THEN "loop" ELSE "ud_render"
    /\ UNCHANGED <<sc, present, enumVars, camera_var, openHandles, cap, running,
                   pcCap, current_frame, heap, nReads, frame, rgbCap, cvt_k,
                   renderVars, h>>

\* update_display registering two follow-up callbacks after a display.
UD_RenderRegistersTwice ==
    /\ pcUI = "ud_render"
    /\ \E raised \in RenderOutcomes :
        IF raised
        THEN /\ h' = [h EXCEPT !.renderRaised = TRUE]
             /\ UNCHANGED <<shown, pending>>
        ELSE /\ shown' = rgbUI
             /\ pending' = pending + 2
             /\ UNCHANGED h
    /\ rgbUI' = None
    /\ pcUI' = "loop"
    /\ UNCHANGED <<sc, present, enumVars, camera_var, openHandles, cap, running,
                   captureVars, refUI>>

\* h, w = rgb.shape[:2]; the widget size is read; the frame is resized when
\* the widget is laid out; the image is handed to the widget;
\* self.root.after(5, self.update_display).  The frame shape is whatever the
\* device delivers and the widget size whatever the layout gives.  When
\* cv2.resize raises, the callback ends there: nothing is displayed and no
\* follow-up is registered.
UD_Render ==
    /\ pcUI = "ud_render"
    /\ \E raised \in RenderOutcomes :
        IF raised
        THEN /\ h' = [h EXCEPT !.renderRaised = TRUE]
             /\ UNCHANGED <<shown, pending>>
        ELSE /\ shown' = rgbUI
             /\ pending' = pending + 1
             /\ UNCHANGED h
    /\ rgbUI' = None
    /\ pcUI' = "loop"
    /\ UNCHANGED <<sc, present, enumVars, camera_var, openHandles, cap, running,
                   captureVars, refUI>>

\* -------------------------------------------------------------- on_closing
\* WM_DELETE_WINDOW is delivered while an event loop runs: the main loop
\* before detection or between two callbacks, or the loop wait_window runs
\* under the selection dialog.  The message boxes are modal to the window.
ClosablePc == {"idle", "selectN", "loop"}

\* self.running = False
OC_SetRunning ==
    /\ pcUI \in ClosablePc
    /\ running' = ClosingRunning(running)
    /\ h' = [h EXCEPT !.runFalls = IF running /\ ~running' THEN @ + 1 ELSE @,
                      !.closedFrom = pcUI]
    /\ pcUI' = "oc_release"
    /\ UNCHANGED <<sc, present, enumVars, camera_var, openHandles, cap,
                   captureVars, renderVars>>

\* if self.cap: self.cap.release()
OC_Release ==
    /\ pcUI = "oc_release"
    /\ IF CapTruthy(cap)
       THEN /\ openHandles' = ReleaseHandle(openHandles, <<"cap", Val(cap).id>>)
            /\ h' = [h EXCEPT !.releases = @ + 1,
                              !.releasedWhileRunning = @ \/ running]
       ELSE UNCHANGED <<openHandles, h>>
    /\ pcUI' = "oc_destroy"
    /\ UNCHANGED <<sc, present, enumVars, camera_var, cap, running,
                   captureVars, renderVars>>

\* self.root.destroy(): the event loop ends, no timer fires any more
OC_Destroy ==
    /\ pcUI = "oc_destroy"
    /\ pcUI' = "closed"
    /\ UNCHANGED <<sc, present, enumVars, camera_var, openHandles, cap, running,
                   captureVars, renderVars, h>>

\* --------------------------------------------------------------- the system
UIStep ==
    \/ Detect \/ ProbeOpen \/ ProbeRecord \/ ProbeEnd
    \/ ConfirmYes \/ ConfirmNo \/ DialogPick \/ DialogOk \/ DialogCancel
    \/ TimerFires \/ UD_Enter \/ UD_Lock \/ UD_Check \/ UD_Copy \/ UD_Unlock
    \/ UD_Render
    \/ OC_SetRunning \/ OC_Release \/ OC_Destroy

CaptureStep ==
    \/ CapTest \/ CapRead \/ CapCvt \/ CapLock \/ CapStore \/ CapUnlock

Next == UIStep \/ CaptureStep

Spec == Init /\ [][Next]_vars

\* The capture thread is scheduled fairly, and so is a close callback once begun.
FairSpec ==
    /\ Spec
    /\ WF_vars(CaptureStep)
    /\ WF_vars(OC_Release \/ OC_Destroy)
\* The Tk event loop runs a due timer and every callback to its end, the
\* capture thread is scheduled, and a thread waiting for frame_lock gets it
\* when it is released again and again.  Nothing obliges the user to close
\* the window.
RenderStep ==
    \/ TimerFires \/ UD_Enter \/ UD_Check \/ UD_Copy \/ UD_Unlock \/ UD_Render

FairMirrorSpec ==
    /\ Spec
    /\ WF_vars(CaptureStep)
    /\ WF_vars(RenderStep)
    /\ SF_vars(UD_Lock)

\* ------------------------------------------- the scale-to-fit step alone
\* Everything but sc stays as it is after construction.
progVars == <<present, pcUI, pcCap, probe_i, available_cameras, camera_names,
              camera_var, openHandles, cap, running, current_frame, frame_lock,
              heap, nReads, frame, rgbCap, cvt_k, rgbUI, refUI, pending, shown, h>>

InitScale ==
    /\ present = {}
    /\ pcUI = "idle"
    /\ pcCap = "none"
    /\ probe_i = 0
    /\ available_cameras = <<>>
    /\ camera_names = <<>>
    /\ camera_var = 0
    /\ openHandles = {}
    /\ cap = None
    /\ running = FALSE
    /\ current_frame = None
    /\ frame_lock = "none"
    /\ heap = [b \in BufIds |-> EmptyBuffer]
    /\ nReads = 0
    /\ frame = None
    /\ rgbCap = 0
    /\ cvt_k = 0
    /\ rgbUI = None
    /\ refUI = 0
    /\ pending = 0
    /\ shown = None
    /\ h = InitHistory
    /\ \E w \in FrameDims, hh \in FrameDims,
          frame_width \in WidgetDims, frame_height \in WidgetDims :
        sc = [pc |-> "in", w |-> w, h |-> hh,
              frame_width |-> frame_width, frame_height |-> frame_height]

\* The widget is not laid out: no resize is attempted.
ScaleSkip ==
    /\ sc.pc = "in"
    /\ LET r == ScaleStepResult(sc.w, sc.h, sc.frame_width, sc.frame_height)
       IN  /\ ~r.resized
           /\ sc' = [pc |-> "out", w |-> sc.w, h |-> sc.h,
                     frame_width |-> sc.frame_width,
                     frame_height |-> sc.frame_height,
                     resized |-> FALSE, new |-> r.new]
    /\ UNCHANGED progVars

\* The widget is laid out: cv2.resize is called with (new_w, new_h).
ScaleResize ==
    /\ sc.pc = "in"
    /\ LET r == ScaleStepResult(sc.w, sc.h, sc.frame_width, sc.frame_height)
       IN  /\ r.resized
           /\ sc' = [pc |-> "out", w |-> sc.w, h |-> sc.h,
                     frame_width |-> sc.frame_width,
                     frame_height |-> sc.frame_height,
                     resized |-> TRUE, new |-> r.new]
    /\ UNCHANGED progVars

NextScale == ScaleSkip \/ ScaleResize

SpecScale == InitScale /\ [][NextScale]_vars

\* ------------------------------------------------------------------ claims
CapHandles == {hd \in openHandles : hd[1] = "cap"}
ProbeHandles == {hd \in openHandles : hd[1] = "probe"}
Started == pcCap # "none"
CloseBegun == h.closedFrom # "none"

\* The cells of an optional buffer copy, and the frame number of a complete one.
CopyCells(o) == Val(o)
CopyFrameNo(o) == PixelFrameNo(Val(CopyCells(o)[1]))
IsFrame(cells, n) ==
    \A k \in 1..Len(cells) : cells[k] = Some(CvtFrame(CameraFrame(n))[k])

\* C1 as stated: once the window is closed, running has gone from true to
\* false exactly once, release() was never called twice, and it was called
\* exactly once for a handle that was opened.
C1_Original ==
    pcUI = "closed" =>
        /\ h.runFalls = 1
        /\ h.releases <= 1
        /\ ((cap # None /\ Val(cap).opened) => h.releases = 1)

\* C1 amended: running never falls twice and release() is never called twice;
\* once the window is closed running is false, it has fallen exactly once if
\* mirroring had started and not at all otherwise, release() was called exactly
\* once if start_mirror created a capture handle and not at all otherwise, and
\* no capture handle is left open.
C1_CloseOnce ==
    /\ h.runFalls <= 1
    /\ h.releases <= 1
    /\ pcUI = "closed" =>
        /\ ~running
        /\ h.runFalls = (IF Started THEN 1 ELSE 0)
        /\ h.releases = (IF cap # None THEN 1 ELSE 0)
        /\ CapHandles = {}

C1_Witness ==
    /\ pcUI = "closed"
    /\ h.closedFrom = "loop"
    /\ Val(cap).opened
    /\ h.runFalls = 1
    /\ h.releases = 1

\* C2: every cell update_display has copied so far, and every image it has
\* handed to the widget, belongs to one single frame that capture_frames
\* stored in the slot; the copy is never a mixture or a partly written buffer.
C2_CopyIsOneFrame ==
    /\ rgbUI # None => \E n \in h.written : IsFrame(CopyCells(rgbUI), n)
    /\ shown # None =>
        /\ Len(CopyCells(shown)) = FrameCells
        /\ \E n \in h.written : IsFrame(CopyCells(shown), n)

\* The copy is half taken while capture_frames is half way through the next frame.
C2_Witness ==
    /\ pcUI = "ud_copy"
    /\ Len(CopyCells(rgbUI)) = 1
    /\ pcCap = "cvt"
    /\ cvt_k = 1

\* C3: the slot holds at most one frame; a render tick that found the slot
\* empty ran before any frame was stored; a tick that took a copy holds the
\* frame stored most recently; and the frame about to be displayed is never
\* older than the one on display.
C3_LatestFrame ==
    /\ Len(current_frame) <= 1
    /\ (pcUI = "ud_unlock" /\ rgbUI = None) => h.written = {}
    /\ (pcUI \in {"ud_copy", "ud_unlock"} /\ rgbUI # None) =>
        /\ current_frame = Some(refUI)
        /\ pcUI = "ud_unlock" => CopyFrameNo(rgbUI) = h.lastWritten
    /\ (pcUI = "ud_render" /\ shown # None) =>
        CopyFrameNo(rgbUI) >= CopyFrameNo(shown)

\* Frame 1 was overwritten before any tick displayed it: frame 2 is the first shown.
C3_Witness ==
    /\ pcUI = "ud_render"
    /\ shown = None
    /\ CopyFrameNo(rgbUI) = 2

\* C4: while probing, available_cameras lists exactly the indices below i
\* whose open succeeded, in strictly ascending order; so after the loop it is
\* exactly the set of indices in 0..5 whose open succeeded, ascending, with
\* no duplicate.
C4_Enumeration ==
    /\ {available_cameras[k] : k \in DOMAIN available_cameras}
           = {j \in present : j < probe_i}
    /\ \A k \in DOMAIN available_cameras :
           /\ available_cameras[k] \in 0..(NumProbe - 1)
           /\ k > 1 => available_cameras[k - 1] < available_cameras[k]

C4_Witness ==
    /\ probe_i = NumProbe
    /\ present = {1, 3, 4}
    /\ available_cameras = <<1, 3, 4>>

\* C5: when enumeration has ended with no device, no selection prompt is
\* shown, start_mirror is never called, running stays false, no capture thread
\* exists, no handle is open and update_display is never called or scheduled.
C5_NoDevice ==
    (probe_i = NumProbe /\ available_cameras = <<>>) =>
        /\ pcUI \in {"probe", "quit"}
        /\ ~h.prompted
        /\ h.opens = 0
        /\ cap = None
        /\ ~running
        /\ ~Started
        /\ openHandles = {}
        /\ pending = 0
        /\ h.udCalls = 0

C5_Witness ==
    /\ pcUI = "quit"
    /\ probe_i = NumProbe
    /\ available_cameras = <<>>

\* C6: once the user has declined (no to the confirmation, or Cancel in the
\* dialog) the session has ended with no device opened for mirroring, running
\* false, no capture thread and no render callback.
C6_Declined ==
    h.declined =>
        /\ pcUI = "quit"
        /\ h.opens = 0
        /\ cap = None
        /\ CapHandles = {}
        /\ ~running
        /\ ~Started
        /\ pending = 0
        /\ h.udCalls = 0

\* Two cameras, the user cancels the dialog.
C6_Witness ==
    /\ h.declined
    /\ Len(available_cameras) = 2
    /\ pcUI = "quit"

\* C7: the device start_mirror opens is the one whose entry the user chose:
\* the only detected index after a confirmation, the camera_var-th detected
\* index after the dialog; it is always an index enumeration reported.
C7_OpensSelected ==
    cap # None =>
        /\ h.picked = Some(Val(cap).id)
        /\ Val(cap).id \in present
        /\ \E k \in DOMAIN available_cameras : available_cameras[k] = Val(cap).id
        /\ Len(available_cameras) = 1 => Val(cap).id = available_cameras[1]
        /\ Len(available_cameras) > 1 => Val(cap).id = available_cameras[camera_var + 1]

\* Devices 2 and 5 detected, the user picks the second entry: device 5 is opened.
C7_Witness ==
    /\ cap # None
    /\ available_cameras = <<2, 5>>
    /\ camera_var = 1
    /\ Val(cap).id = 5
    /\ running

\* C8: once the selected device has failed to open, the session has ended:
\* the open was attempted once, running is false, no capture thread exists
\* and update_display was neither called nor scheduled.
C8_OpenFailure ==
    h.openFailed =>
        /\ pcUI = "quit"
        /\ h.opens = 1
        /\ ~running
        /\ ~Started
        /\ CapHandles = {}
        /\ pending = 0
        /\ h.udCalls = 0

C8_Witness ==
    /\ h.openFailed
    /\ pcUI = "quit"
    /\ cap # None

\* C9: at most one handle is open at any moment; a probe handle is open only
\* between the open of index i and its release in the same iteration, so none
\* is open when the next index is probed or when selection begins.
C9_ProbeReleased ==
    /\ Cardinality(openHandles) <= 1
    /\ ProbeHandles # {} => (pcUI = "probe_opened" /\ ProbeHandles = {<<"probe", probe_i>>})
    /\ pcUI \in {"probe", "select1", "selectN"} => openHandles = {}

\* All six devices were opened and released; the dialog is showing.
C9_Witness ==
    /\ pcUI = "selectN"
    /\ Len(available_cameras) = NumProbe
    /\ openHandles = {}

\* C10: on_closing releases the handle only after running is false; from the
\* start of on_closing on, the capture thread makes at most one more read,
\* nothing more is displayed and no render callback is registered; and once
\* the window is closed a started capture thread eventually leaves its loop.
C10_CloseStopsLoops ==
    /\ [](~h.releasedWhileRunning /\ (h.releases > 0 => ~running))
    /\ [](h.readsAfterClose <= 1)
    /\ [][CloseBegun => (shown' = shown /\ pending' = pending /\ ~running')]_vars
    /\ (pcUI = "closed" /\ Started) ~> (pcCap = "done")

\* The thread had tested running before the close and made its one last read.
C10_Witness ==
    /\ pcUI = "closed"
    /\ pcCap = "done"
    /\ h.readsAfterClose = 1
    /\ h.releases = 1

\* C11: the resize is attempted exactly when both widget dimensions exceed 1;
\* when it is, the target size fits the widget (new_w <= widget width, new_h
\* <= widget height) and keeps the frame's aspect ratio up to the truncation
\* of each side: new_w * h and new_h * w differ by less than one frame side.
C11_ScaleToFit ==
    sc.pc = "out" =>
        /\ sc.resized <=> (sc.frame_width > 1 /\ sc.frame_height > 1)
        /\ (sc.frame_width <= 1 \/ sc.frame_height <= 1) => sc.new = <<sc.w, sc.h>>
        /\ sc.resized =>
            /\ sc.new[1] <= sc.frame_width
            /\ sc.new[2] <= sc.frame_height
            /\ sc.new[1] * sc.h - sc.new[2] * sc.w <= sc.w
            /\ sc.new[2] * sc.w - sc.new[1] * sc.h <= sc.h

\* A 3x2 frame in a 4x4 widget becomes 4x2.
C11_Witness ==
    /\ sc.pc = "out"
    /\ sc.resized
    /\ <<sc.w, sc.h>> = <<3, 2>>
    /\ <<sc.frame_width, sc.frame_height>> = <<4, 4>>
    /\ sc.new = <<4, 2>>

\* C17 as stated: whenever a resize is performed, the target size has
\* new_w >= 1 and new_h >= 1.
C17_ValidSize ==
    (sc.pc = "out" /\ sc.resized) => (sc.new[1] >= 1 /\ sc.new[2] >= 1)

\* C12: a read that fails leaves the slot, the buffers and running as they
\* were and takes the capture thread back to its loop test; the slot, once it
\* holds a frame, is never emptied again; and running goes from true to false
\* only in on_closing.
C12_FailedReadIsSilent ==
    /\ [][(pcCap = "read" /\ pcCap' # "read") => pcCap' \in {"cvt", "test"}]_vars
    /\ [][(pcCap = "read" /\ pcCap' = "test") =>
            (current_frame' = current_frame /\ heap' = heap /\ running' = running)]_vars
    /\ [][current_frame # None => current_frame' # None]_vars
    /\ [][(running /\ ~running') => (pcUI \in ClosablePc /\ pcUI' = "oc_release")]_vars

\* The second read failed: the slot still holds frame 1 and mirroring goes on.
C12_Witness ==
    /\ pcCap = "test"
    /\ nReads = 2
    /\ h.written = {1}
    /\ current_frame = Some(NewBuffer(1))
    /\ running
    /\ pcUI = "loop"

\* C13 as stated: while no frame has been stored nothing is handed to the
\* widget, and a tick that finds the slot empty registers its follow-up and
\* displays nothing; once a first frame has been stored, a frame is eventually
\* handed to the widget unless the window is closed.
C13_FirstFrameShown ==
    /\ [](h.written = {} => shown = None)
    /\ [][(pcUI = "ud_check" /\ current_frame = None /\ pcUI' # pcUI) =>
            (pending' = pending + 1 /\ shown' = shown)]_vars
    /\ (h.written # {}) ~> (shown # None \/ CloseBegun)

CaptureInside == pcCap \in {"store", "unlock"}
RenderInside == pcUI \in {"ud_check", "ud_copy", "ud_unlock"}

\* C14: frame_lock is held by the capture thread exactly while it stores the
\* slot and by update_display exactly from its test of the slot to the end of
\* the with block, so not during the read, the conversion, the resize, the
\* hand-off, nor after a return; the two are never inside together, and a
\* thread waiting for the lock waits for an owner that can go on.
C14_LockDiscipline ==
    /\ frame_lock = "capture" <=> CaptureInside
    /\ frame_lock = "ui" <=> RenderInside
    /\ ~(CaptureInside /\ RenderInside)
    /\ (pcCap = "lock" /\ frame_lock # "none") => ENABLED (UD_Check \/ UD_Copy \/ UD_Unlock)
    /\ (pcUI = "ud_lock" /\ frame_lock # "none") => ENABLED (CapStore \/ CapUnlock)

\* update_display is on its early-return path, still inside the with block,
\* while the capture thread waits to store its first frame.
C14_Witness ==
    /\ pcUI = "ud_unlock"
    /\ rgbUI = None
    /\ frame_lock = "ui"
    /\ pcCap = "lock"

\* C15 as stated: the capture thread never calls read() on the capture
\* handle after on_closing has released it.
C15_NoReadAfterRelease == ~h.readReleased

====
